---- MODULE Spec2Model ----
(***************************************************************************)
(* Browser client of the chat application: the API client (api.js), the    *)
(* auth controller (auth.js), the chat controller ChatApp (app.js and its  *)
(* second copy in unnamed/part_001) and the preferences panel.             *)
(*                                                                         *)
(* Text is a sequence of one-character strings, so that escaping and the   *)
(* markdown-like formatting are computed character by character as the     *)
(* code computes them.                                                     *)
(***************************************************************************)
EXTENDS Integers, Sequences, FiniteSets, Bags, TLC

\* ------------------------------------------------------------------ bounds
\* session ids the backend hands out are 0..MaxSessionId
MaxSessionId == 1
\* the user sends only while the message view holds fewer entries than this
MaxView == 2
\* most requests a page has in flight at once
MaxInFlight == 2
\* longest text drawn for the rendering functions
MaxTextLen == 3

\* ------------------------------------------------------------------ values
\* JavaScript null for a session id (ids are numbers)
NoSession == -1
\* JavaScript null / undefined for a string value (localStorage.getItem of a
\* missing key, a missing field of a response body)
null == "null"

SessionIds == 0 .. MaxSessionId

\* ------------------------------------------------------------------ text
Letters == {"a", "b", "x"}

Upper(c) == IF c = "a" THEN "A" ELSE IF c = "b" THEN "B" ELSE IF c = "x" THEN "X" ELSE c

\* String.prototype.trim, over the blank characters of the model
RECURSIVE TrimLeft(_)
TrimLeft(s) == IF s # <<>> /\ Head(s) \in {" ", "\n"} THEN TrimLeft(Tail(s)) ELSE s

RECURSIVE TrimRight(_)
TrimRight(s) ==
    IF s # <<>> /\ s[Len(s)] \in {" ", "\n"} THEN TrimRight(SubSeq(s, 1, Len(s) - 1)) ELSE s

trim(s) == TrimRight(TrimLeft(s))

\* the serialisation of a text node: what div.innerHTML returns after
\* div.textContent = text
EscapeChar(c) ==
    IF c = "&" THEN <<"&", "a", "m", "p", ";">>
    ELSE IF c = "<" THEN <<"&", "l", "t", ";">>
    ELSE IF c = ">" THEN <<"&", "g", "t", ";">>
    ELSE <<c>>

RECURSIVE escapeHtml(_)
escapeHtml(text) ==
    IF text = <<>> THEN <<>> ELSE EscapeChar(Head(text)) \o escapeHtml(Tail(text))

\* s.replace(/c/g, rep) for a one-character pattern
RECURSIVE ReplaceChar(_, _, _)
ReplaceChar(s, c, rep) ==
    IF s = <<>> THEN <<>>
    ELSE (IF Head(s) = c THEN rep ELSE <<Head(s)>>) \o ReplaceChar(Tail(s), c, rep)

\* first index >= i at which d occurs in s, 0 when there is none
RECURSIVE IndexOf(_, _, _)
IndexOf(s, d, i) ==
    IF i + Len(d) - 1 > Len(s) THEN 0
    ELSE IF SubSeq(s, i, i + Len(d) - 1) = d THEN i
    ELSE IndexOf(s, d, i + 1)

\* s.replace(/d(.*?)d/g, open $1 close): leftmost match, shortest body, then
\* on from the end of the match ("." never meets a newline here: the
\* newlines are replaced first)
RECURSIVE ReplaceDelimited(_, _, _, _)
ReplaceDelimited(s, d, open, close) ==
    IF s = <<>> THEN <<>>
    ELSE IF IndexOf(s, d, 1) = 1 /\ IndexOf(s, d, Len(d) + 1) # 0
         THEN LET q == IndexOf(s, d, Len(d) + 1)
              IN  open \o SubSeq(s, Len(d) + 1, q - 1) \o close
                     \o ReplaceDelimited(SubSeq(s, q + Len(d), Len(s)), d, open, close)
         ELSE <<Head(s)>> \o ReplaceDelimited(Tail(s), d, open, close)

BrTag == <<"<", "b", "r", ">">>
StrongOpen == <<"<", "s", "t", "r", "o", "n", "g", ">">>
StrongClose == <<"<", "/", "s", "t", "r", "o", "n", "g", ">">>
EmOpen == <<"<", "e", "m", ">">>
EmClose == <<"<", "/", "e", "m", ">">>
CodeOpen == <<"<", "c", "o", "d", "e", ">">>
CodeClose == <<"<", "/", "c", "o", "d", "e", ">">>

\* the backtick character (the lexer takes no backtick inside a string)
BackTick == "BACKTICK"

formatMessage(content) ==
    LET s1 == ReplaceChar(content, "\n", BrTag)
        s2 == ReplaceDelimited(s1, <<"*", "*">>, StrongOpen, StrongClose)
        s3 == ReplaceDelimited(s2, <<"*">>, EmOpen, EmClose)
    IN  ReplaceDelimited(s3, <<BackTick>>, CodeOpen, CodeClose)

capitalize(str) == IF str = <<>> THEN <<>> ELSE <<Upper(Head(str))>> \o Tail(str)

\* ------------------------------------------------- reading markup back
\* The names of the elements an HTML parser opens when it is given html: a
\* "<" followed by a letter starts a tag whose name is the run of letters.
TagLetters == Letters \cup {"r", "s", "t", "o", "n", "g", "e", "m", "c", "d", "h"}

RECURSIVE LetterRun(_)
LetterRun(s) ==
    IF s # <<>> /\ Head(s) \in TagLetters THEN <<Head(s)>> \o LetterRun(Tail(s)) ELSE <<>>

Elements(html) ==
    { LetterRun(SubSeq(html, i + 1, Len(html))) :
        i \in { j \in 1 .. Len(html) - 1 : html[j] = "<" /\ html[j + 1] \in TagLetters } }

\* the elements formatMessage itself writes
FormatElements == { <<"b", "r">>, <<"s", "t", "r", "o", "n", "g">>, <<"e", "m">>,
                    <<"c", "o", "d", "e">> }

\* ------------------------------------------------------------------ state
VARIABLES
    \* the browser
    page,               \* path of the document that is loaded
    href,               \* window.location.href assigned and not yet loaded, or null
    token,              \* localStorage 'token', or null
    username,           \* localStorage 'username', or null
    net,                \* the bag of requests in flight
    timers,             \* pending setTimeout redirects of the registration page
    event,              \* the handler that ran last and the alert it raised
    \* ChatApp
    variant,            \* which copy of the chat controller the page runs
    currentSessionId, sessions, messages, isLoading, memoryEnabled,
    listeners,          \* setupEventListeners has run
    \* the main page's DOM
    messagesContainer,  \* the message view: one entry per message element
    typingIndicator, welcomeHidden, sendBtnDisabled,
    conversationsList,  \* the rendered session list
    preferencesList,    \* the rendered preferences panel
    urlSession,         \* the 'session' parameter the page was opened with, until
                        \* init() has read it (nothing reads the URL afterwards)
    \* the login / registration form's DOM
    submitDisabled, errorMessage, successMessage,
    \* the outcome of the last direct call of an API-client operation
    apiResult,
    \* MemoryManager
    mmPreferences,      \* this.preferences of the MemoryManager
    updateInterval,     \* this.updateInterval: a timer id, or NoTimer for null
    intervals           \* the ids of the setInterval timers that are running

browserVars == <<page, href, token, username, net, timers, event>>
appVars == <<variant, currentSessionId, sessions, messages, isLoading, memoryEnabled,
             listeners>>
domVars == <<messagesContainer, typingIndicator, welcomeHidden, sendBtnDisabled,
             conversationsList, preferencesList, urlSession>>
formVars == <<submitDisabled, errorMessage, successMessage>>
memoryVars == <<mmPreferences, updateInterval, intervals>>
vars == <<browserVars, appVars, domVars, formVars, apiResult, memoryVars>>

\* ------------------------------------------------------------ API client
\* Truthiness of a string-valued field
Truthy(v) == v # null

Field(body, f) == IF f \in DOMAIN body THEN body[f] ELSE null

Bearer(t) == <<"Bearer", t>>

\* a faulty apiCall that never adds the Authorization header
apiCall_NoAuthHeader(endpoint, options) ==
    [endpoint |-> endpoint, via |-> "apiCall",
     headers |-> [ContentType |-> "application/json"]] @@ options

\* api.js apiCall, up to the fetch: the request it sends. The token is read
\* from local storage when the call is made.
apiCall(endpoint, options) ==
    LET defaultHeaders ==
            IF Truthy(token)
            THEN [ContentType |-> "application/json", Authorization |-> Bearer(token)]
            ELSE [ContentType |-> "application/json"]
    IN  [endpoint |-> endpoint, via |-> "apiCall", headers |-> defaultHeaders] @@ options

\* What the network gives back: the fetch rejects, or a response arrives
\* whose body is JSON (a record) or is not.
NetworkError == [kind |-> "network_error"]
HttpResponse(ok, body) == [kind |-> "http", ok |-> ok, json |-> TRUE, body |-> body]
NotJson(ok) == [kind |-> "http", ok |-> ok, json |-> FALSE]

Threw(message) == [threw |-> TRUE, message |-> message]
Returned(data) == [threw |-> FALSE, data |-> data]

\* api.js apiCall, from the response on
apiCallSettle(response) ==
    IF response.kind = "network_error" THEN Threw("Failed to fetch")
    ELSE IF ~response.json THEN Threw("Unexpected token in JSON")
    ELSE IF ~response.ok
         THEN Threw(IF Truthy(Field(response.body, "detail"))
                    THEN response.body.detail ELSE "API call failed")
    ELSE Returned(response.body)

\* fetch(...).then(res => res.json()): authAPI.login, and login / register of
\* auth.js
fetchJsonSettle(response) ==
    IF response.kind = "network_error" THEN Threw("Failed to fetch")
    ELSE IF ~response.json THEN Threw("Unexpected token in JSON")
    ELSE Returned(response.body)

Settle(request, response) ==
    IF request.via = "apiCall" THEN apiCallSettle(response) ELSE fetchJsonSettle(response)

authAPI_register(userData) ==
    apiCall("/register", [method |-> "POST", body |-> userData])

authAPI_login(user, password) ==
    [endpoint |-> "/login", via |-> "fetch", method |-> "POST",
     headers |-> [ContentType |-> "application/x-www-form-urlencoded"],
     body |-> [username |-> user, password |-> password]]

chatAPI_sendMessage(message, sessionId, memEnabled, metadata) ==
    LET payload == [message |-> message, session_id |-> sessionId,
                    memory_enabled |-> memEnabled, metadata |-> metadata]
        \* if (!sessionId) delete payload.session_id
        sent == IF sessionId = NoSession \/ sessionId = 0
                THEN [f \in DOMAIN payload \ {"session_id"} |-> payload[f]]
                ELSE payload
    IN  apiCall("/chat", [method |-> "POST", body |-> sent])

chatAPI_getSessions == apiCall("/sessions", [method |-> "GET"])

chatAPI_deleteSession(sessionId) ==
    apiCall("/session/{id}", [method |-> "DELETE", id |-> sessionId])

chatAPI_getSessionMessages(sessionId) ==
    apiCall("/session/{id}/messages", [method |-> "GET", id |-> sessionId])

memoryAPI_getPreferences == apiCall("/memory/preferences", [method |-> "GET"])

memoryAPI_getRecentMemories(limit, type) ==
    apiCall("/memory/recent", [method |-> "GET", limit |-> limit]
                               @@ (IF Truthy(type) THEN [memory_type |-> type]
                                   ELSE [limit |-> limit]))

memoryAPI_storeMemory(content, type, metadata) ==
    apiCall("/memory/store",
            [method |-> "POST", body |-> [content |-> content, type |-> type,
                                          metadata |-> metadata]])

memoryAPI_searchMemories(query, limit, memoryType) ==
    apiCall("/memory/search",
            [method |-> "POST", body |-> [query |-> query, limit |-> limit,
                                          memory_type |-> memoryType]])

\* -------------------------------------------------------------- rendering
\* What addMessageToUI appends to the message view: the element's role
\* class, the content its copy handler keeps, and the innerHTML of its
\* message-text div.
MessageElement(role, content) ==
    [role |-> role, content |-> content, html |-> formatMessage(content)]

RECURSIVE MessageElements(_)
MessageElements(msgs) ==
    IF msgs = <<>> THEN <<>>
    ELSE <<MessageElement(Head(msgs).role, Head(msgs).content)>>
             \o MessageElements(Tail(msgs))

\* renderSessions: one item per session, the title escaped; the empty list
\* stands for the 'No conversations yet' paragraph
RECURSIVE SessionItems(_, _)
SessionItems(list, current) ==
    IF list = <<>> THEN <<>>
    ELSE <<[id |-> Head(list).id, title |-> escapeHtml(Head(list).title)]>>
             \o SessionItems(Tail(list), current)

renderSessions(list, current) == SessionItems(list, current)

RECURSIVE EscapeAll(_)
EscapeAll(values) ==
    IF values = <<>> THEN <<>> ELSE <<escapeHtml(Head(values))>> \o EscapeAll(Tail(values))

\* the category divs renderPreferences appends, in the mapping's order
RECURSIVE PreferenceGroups(_)
PreferenceGroups(entries) ==
    IF entries = <<>> THEN <<>>
    ELSE (IF Head(entries).array /\ Len(Head(entries).values) > 0
          THEN <<[h5 |-> capitalize(Head(entries).key),
                  items |-> EscapeAll(Head(entries).values)]>>
          ELSE <<>>) \o PreferenceGroups(Tail(entries))

Placeholder == [placeholder |-> TRUE, groups |-> <<>>]

\* ChatApp.renderPreferences(preferences): the panel it leaves. preferences
\* is [defined, entries]: undefined, or a mapping as its list of entries
\* [key, array, values]
renderPreferences(preferences) ==
    IF ~preferences.defined \/ Len(preferences.entries) = 0 THEN Placeholder
    ELSE [placeholder |-> FALSE, groups |-> PreferenceGroups(preferences.entries)]

\* --------------------------------------------------------- rendering inputs
RenderAlphabet == {"<", "b", ">", "*", "&"}

RECURSIVE TextsUpTo(_)
TextsUpTo(n) ==
    IF n = 0 THEN {<<>>}
    ELSE LET shorter == TextsUpTo(n - 1)
         IN  shorter \cup { Append(t, c) : t \in shorter, c \in RenderAlphabet }

BoldX == <<"<", "b", ">", "x", "<", "/", "b", ">">>

RenderTexts ==
    TextsUpTo(MaxTextLen)
        \cup { BoldX, <<"*", "*", "x", "*", "*">>, <<"a", "\n", "b">>,
               <<BackTick, "x", BackTick>>, <<"*", "*", "*", "a", "*", "*">> }

SmallTexts == { <<"a">>, <<"<", "b", ">">>, <<"&">> }

Undefined == [defined |-> FALSE, entries |-> <<>>]
Mapping(entries) == [defined |-> TRUE, entries |-> entries]

PreferenceEntries ==
    { [key |-> k, array |-> TRUE, values |-> vs] :
        k \in SmallTexts, vs \in {<<>>} \cup { <<v>> : v \in SmallTexts } }
    \cup { [key |-> k, array |-> FALSE, values |-> <<>>] : k \in SmallTexts }

RenderPreferenceInputs ==
    { Undefined, Mapping(<<>>) } \cup { Mapping(<<e>>) : e \in PreferenceEntries }

\* ------------------------------------------------------------ idle values
NoEvent == [op |-> "none", alert |-> null]
Ev(op) == [op |-> op, alert |-> null]
HiddenMessage == [hidden |-> TRUE, text |-> ""]
NoResult == [op |-> "none", threw |-> FALSE]
EmptyPanel == [placeholder |-> FALSE, groups |-> <<>>]

\* this.updateInterval = null
NoTimer == 0

\* MemoryManager's constructor: preferences = {}, updateInterval = null, and
\* no timer runs
MemoryManager_constructor ==
    /\ mmPreferences = Mapping(<<>>)
    /\ updateInterval = NoTimer
    /\ intervals = {}

\* ------------------------------------------- the rendering functions alone
\* Init draws the state the functions render from; each action applies one
\* of them as the controller calls it.
InitRender ==
    /\ page = "render" /\ href = null /\ token = null /\ username = null
    /\ net = EmptyBag /\ timers = 0 /\ event = NoEvent
    /\ variant = "app.js" /\ currentSessionId = NoSession
    /\ \E role \in {"user", "assistant"}, content \in RenderTexts, title \in RenderTexts,
          which \in {"messages", "sessions"} :
         /\ messages = IF which = "messages"
                       THEN <<[role |-> role, content |-> content]>> ELSE <<>>
         /\ sessions = IF which = "sessions" /\ role = "user"
                       THEN <<[id |-> 1, title |-> title, memory_enabled |-> TRUE]>>
                       ELSE <<>>
         /\ which = "messages" => title = <<>>
         /\ which = "sessions" => content = <<>>
    /\ isLoading = FALSE /\ memoryEnabled = TRUE /\ listeners = FALSE
    /\ messagesContainer = <<>> /\ typingIndicator = FALSE /\ welcomeHidden = FALSE
    /\ sendBtnDisabled = FALSE /\ conversationsList = <<>>
    /\ preferencesList = EmptyPanel /\ urlSession = NoSession
    /\ submitDisabled = FALSE /\ errorMessage = HiddenMessage
    /\ successMessage = HiddenMessage /\ apiResult = NoResult
    /\ MemoryManager_constructor

\* this.renderMessages()
RenderMessages ==
    /\ messagesContainer' = MessageElements(messages)
    /\ welcomeHidden' = (Len(messages) # 0)
    /\ typingIndicator' = FALSE
    /\ event' = Ev("other")
    /\ UNCHANGED <<page, href, token, username, net, timers, appVars, sendBtnDisabled,
                   conversationsList, preferencesList, urlSession, formVars,
                   apiResult, memoryVars>>

\* this.renderSessions()
RenderSessions ==
    /\ conversationsList' = renderSessions(sessions, currentSessionId)
    /\ event' = Ev("other")
    /\ UNCHANGED <<page, href, token, username, net, timers, appVars, messagesContainer,
                   typingIndicator, welcomeHidden, sendBtnDisabled, preferencesList, urlSession, formVars, apiResult,
                   memoryVars>>

\* this.renderPreferences(data.preferences)
RenderPreferences(preferences) ==
    /\ preferencesList' = renderPreferences(preferences)
    /\ event' = Ev("other")
    /\ UNCHANGED <<page, href, token, username, net, timers, appVars, messagesContainer,
                   typingIndicator, welcomeHidden, sendBtnDisabled, conversationsList, urlSession, formVars, apiResult,
                   memoryVars>>

NextRender ==
    \/ RenderMessages
    \/ RenderSessions
    \/ \E preferences \in RenderPreferenceInputs : RenderPreferences(preferences)

SpecRender == InitRender /\ [][NextRender]_vars

\* --------------------------------------------------- the API client alone
\* Callers invoke the operations of api.js directly while the token comes
\* and goes in local storage; the network answers each request in any order.
\* most direct calls in flight at once
MaxApiCalls == 1

Tokens == {"t1"}

\* a request in flight, with what resumes when it settles
Pending(request, k) == request @@ [k |-> k]

Issue(bag, request) == bag (+) SetToBag({request})

Without(bag, request) == bag (-) SetToBag({request})

InFlight == BagCardinality(net)

\* the requests in flight whose reply resumes the handler at k
Awaited(k) == { r \in BagToSet(net) : r.k = k }

\* The loadSessions calls in flight. init() issues its calls before the
\* list is rendered and before the listeners are attached, so before every
\* call that deleteSession or sendMessage makes; such a call carries whether
\* the list of a later call has already been applied (overtaken).
ListLoadsIn(bag) == { q \in BagToSet(bag) : "overtaken" \in DOMAIN q }

InitLoads == { "init.loadSessions.1", "init.loadSessions.2" }

\* loadSessions(), up to the wait for chatAPI.getSessions
IssueLoad(bag, k) ==
    Issue(bag, Pending(chatAPI_getSessions, k) @@ [overtaken |-> FALSE])

\* the requests left in flight when loadSessions resumes with the reply to r;
\* applied: the reply carried a list, which loadSessions stored and rendered
Answered(bag, r, applied) ==
    LET earlier == { q \in ListLoadsIn(bag) \ {r} :
                       q.k \in InitLoads /\ r.k \notin InitLoads /\ applied }
    IN  ((bag (-) SetToBag({r})) (-) SetToBag(earlier))
            (+) SetToBag({ [q EXCEPT !.overtaken = TRUE] : q \in earlier })

ApiResponses ==
    { NetworkError, NotJson(TRUE), NotJson(FALSE),
      HttpResponse(TRUE, [data |-> "payload"]),
      HttpResponse(FALSE, [detail |-> "Not authenticated"]),
      HttpResponse(FALSE, [error |-> "no detail field"]) }

InitApi ==
    /\ page = "api" /\ href = null /\ token \in Tokens \cup {null} /\ username = null
    /\ net = EmptyBag /\ timers = 0 /\ event = NoEvent
    /\ variant = "app.js" /\ currentSessionId = NoSession /\ sessions = <<>>
    /\ messages = <<>> /\ isLoading = FALSE /\ memoryEnabled = TRUE /\ listeners = FALSE
    /\ messagesContainer = <<>> /\ typingIndicator = FALSE /\ welcomeHidden = FALSE
    /\ sendBtnDisabled = FALSE /\ conversationsList = <<>>
    /\ preferencesList = EmptyPanel /\ urlSession = NoSession
    /\ submitDisabled = FALSE /\ errorMessage = HiddenMessage
    /\ successMessage = HiddenMessage /\ apiResult = NoResult
    /\ MemoryManager_constructor

apiFrame == <<page, href, username, timers, appVars, domVars, formVars, memoryVars>>

\* a caller invokes one operation: the request goes out
Invoke(op, request) ==
    /\ InFlight < MaxApiCalls
    /\ net' = Issue(net, Pending(request, "caller"))
    /\ event' = Ev(op)
    /\ UNCHANGED <<token, apiResult, apiFrame>>

Call_register ==
    Invoke("authAPI.register",
           authAPI_register([username |-> "ann", email |-> "a@x", password |-> "pw"]))
Call_login == Invoke("authAPI.login", authAPI_login("ann", "pw"))
Call_sendMessage ==
    \E sid \in SessionIds \cup {NoSession} :
        Invoke("chatAPI.sendMessage", chatAPI_sendMessage(<<"a">>, sid, TRUE, [model |-> "m"]))
Call_getSessions == Invoke("chatAPI.getSessions", chatAPI_getSessions)
Call_deleteSession ==
    \E sid \in SessionIds : Invoke("chatAPI.deleteSession", chatAPI_deleteSession(sid))
Call_getSessionMessages ==
    \E sid \in SessionIds :
        Invoke("chatAPI.getSessionMessages", chatAPI_getSessionMessages(sid))
Call_getPreferences == Invoke("memoryAPI.getPreferences", memoryAPI_getPreferences)
Call_getRecentMemories ==
    \E type \in {null, "fact"} :
        Invoke("memoryAPI.getRecentMemories", memoryAPI_getRecentMemories(10, type))
Call_storeMemory ==
    Invoke("memoryAPI.storeMemory", memoryAPI_storeMemory(<<"a">>, "general", "none"))
Call_searchMemories ==
    Invoke("memoryAPI.searchMemories", memoryAPI_searchMemories(<<"a">>, 5, null))

\* the request r settles: the caller's promise is fulfilled with
\* the data or rejected with the error
ApiSettle(r, response) ==
    /\ r.k = "caller"
    /\ net' = Without(net, r)
    /\ apiResult' = [op |-> r.endpoint, response |-> response]
                       @@ Settle(r, response)
    /\ event' = Ev("other")
    /\ UNCHANGED <<token, apiFrame>>

\* localStorage.setItem('token', ...) and removeItem('token') by the page
Storage_setToken(t) ==
    /\ token # t
    /\ token' = t
    /\ event' = Ev("other")
    /\ UNCHANGED <<net, apiResult, apiFrame>>

Storage_removeToken ==
    /\ token # null
    /\ token' = null
    /\ event' = Ev("other")
    /\ UNCHANGED <<net, apiResult, apiFrame>>

NextApi ==
    \/ Call_register
    \/ Call_login
    \/ Call_sendMessage
    \/ Call_getSessions
    \/ Call_deleteSession
    \/ Call_getSessionMessages
    \/ Call_getPreferences
    \/ Call_getRecentMemories
    \/ Call_storeMemory
    \/ Call_searchMemories
    \/ \E r \in Awaited("caller") : \E response \in ApiResponses : ApiSettle(r, response)
    \/ \E t \in Tokens : Storage_setToken(t)
    \/ Storage_removeToken

SpecApi == InitApi /\ [][NextApi]_vars

\* ----------------------------------------------------- the pages: inputs
Variants == {"app.js", "part_001"}
LoginPage == "/login.html"
RegisterPage == "/register.html"
MainPage == "/"

Digit(n) == <<"0", "1", "2", "3", "4", "5">>[n + 1]

\* what the backend holds: a session per id, and per session a history
\* that is empty or one message
Session(id) ==
    [id |-> id, title |-> <<"s", Digit(id)>>, memory_enabled |-> TRUE]

RECURSIVE Ascending(_)
Ascending(S) ==
    IF S = {} THEN <<>>
    ELSE LET m == CHOOSE x \in S : \A y \in S : x <= y
         IN  <<Session(m)>> \o Ascending(S \ {m})

\* the lists the backend returns: the sessions created so far, oldest first
SessionLists == { Ascending(0 .. n - 1) : n \in 0 .. MaxSessionId + 1 }

MessageHistories(sid) ==
    { <<>>, <<[role |-> "user", content |-> <<"m", Digit(sid)>>]>> }

\* what the message box can hold when the user sends
InputValues == { <<" ">>, <<" ", "<", "b", ">">> }
ReplyText == <<"o", "k">>
SelectedModel == "x-ai/grok-3-mini-beta"

MainPreferenceInputs ==
    { Mapping(<<[key |-> <<"a">>, array |-> TRUE, values |-> <<<<"b">>>>]>>) }

Unauthorized == HttpResponse(FALSE, [detail |-> "Not authenticated"])
Failures == { NetworkError, Unauthorized }

\* the answers the network can give to a request
Responses(request) ==
    IF request.endpoint = "/sessions"
    THEN {Unauthorized} \cup { HttpResponse(TRUE, [array |-> l]) : l \in SessionLists }
    ELSE IF request.endpoint = "/session/{id}/messages"
    THEN {Unauthorized} \cup { HttpResponse(TRUE, [array |-> h]) : h \in MessageHistories(request.id) }
    ELSE IF request.endpoint = "/session/{id}"
    THEN {Unauthorized} \cup { HttpResponse(TRUE, [message |-> "Session deleted"]) }
    ELSE IF request.endpoint = "/chat"
    THEN Failures
         \cup { HttpResponse(TRUE, [message |-> ReplyText, session_id |-> sid]) :
                  sid \in IF "session_id" \in DOMAIN request.body
                          THEN {request.body.session_id} ELSE SessionIds }
         \cup { HttpResponse(TRUE, [session_id |-> 0]) }
    ELSE IF request.endpoint = "/memory/preferences"
    THEN {Unauthorized} \cup { HttpResponse(TRUE, [preferences |-> p]) : p \in MainPreferenceInputs }
    ELSE IF request.endpoint = "/login"
    THEN { NetworkError, NotJson(FALSE),
           HttpResponse(FALSE, [detail |-> "Incorrect username or password"]),
           HttpResponse(FALSE, [error |-> "no detail field"]) }
         \cup { HttpResponse(TRUE, [access_token |-> t, token_type |-> "bearer"]) :
                  t \in Tokens }
    ELSE \* "/register"
         { NetworkError, HttpResponse(TRUE, [id |-> "u1"]),
           HttpResponse(FALSE, [detail |-> "Username already registered"]),
           HttpResponse(FALSE, [error |-> "no detail field"]) }

\* ------------------------------------------------------- auth.js: helpers
\* auth.js register(username, email, password), up to the fetch
register(user, email, password) ==
    [endpoint |-> "/register", via |-> "fetch", method |-> "POST",
     headers |-> [ContentType |-> "application/json"],
     body |-> [username |-> user, email |-> email, password |-> password]]

\* auth.js login(username, password), up to the fetch
login(user, password) ==
    [endpoint |-> "/login", via |-> "fetch", method |-> "POST",
     headers |-> [ContentType |-> "application/x-www-form-urlencoded"],
     body |-> [username |-> user, password |-> password]]

isAuthenticated == Truthy(token)

\* requireAuth() on the page at path: where the browser is headed afterwards,
\* given the navigation that was pending
requireAuth(path, pending) ==
    IF ~isAuthenticated /\ path \notin {LoginPage, RegisterPage} THEN LoginPage
    ELSE pending

\* ---------------------------------------------------------- loading a page
\* The state right after DOMContentLoaded of the page at path p, opened with
\* the URL parameter session = url: the handlers of auth.js run first (the
\* module is imported by app.js), then new ChatApp() and the part of init()
\* up to its first wait for the network.
LoadedHref(p) == IF p = MainPage THEN requireAuth(p, null) ELSE null

\* app.js returns from init() when no token is stored; part_001 goes on
init_stopsWithoutToken == variant = "app.js" /\ ~isAuthenticated

LoadedNet(p) ==
    IF p # MainPage \/ init_stopsWithoutToken THEN EmptyBag
    ELSE IF variant = "app.js"
         THEN IssueLoad(EmptyBag, "init.loadSessions.1")
         ELSE IssueLoad(EmptyBag, "init.loadSessions.2")

Init ==
    /\ page \in {MainPage, LoginPage, RegisterPage}
    /\ \E t \in Tokens \cup {null} :
         /\ token = t
         /\ username = IF t = null THEN null ELSE "ann"
    /\ variant \in Variants
    /\ urlSession \in IF page = MainPage THEN SessionIds \cup {NoSession} ELSE {NoSession}
    /\ href = LoadedHref(page)
    /\ net = LoadedNet(page)
    /\ timers = 0 /\ event = Ev("DOMContentLoaded")
    /\ currentSessionId = NoSession /\ sessions = <<>> /\ messages = <<>>
    /\ isLoading = FALSE /\ memoryEnabled = TRUE /\ listeners = FALSE
    /\ messagesContainer = <<>> /\ typingIndicator = FALSE /\ welcomeHidden = FALSE
    /\ sendBtnDisabled = FALSE /\ conversationsList = <<>>
    /\ preferencesList = EmptyPanel
    /\ submitDisabled = FALSE /\ errorMessage = HiddenMessage
    /\ successMessage = HiddenMessage /\ apiResult = NoResult
    /\ MemoryManager_constructor

\* The pending navigation completes: the document is replaced, its requests
\* and timers die with it, and the new page starts as above.
PageLoad ==
    /\ href # null
    /\ page' = href
    /\ urlSession' = NoSession
    /\ href' = LoadedHref(href)
    /\ net' = LoadedNet(href)
    /\ timers' = 0 /\ event' = Ev("DOMContentLoaded")
    /\ currentSessionId' = NoSession /\ sessions' = <<>> /\ messages' = <<>>
    /\ isLoading' = FALSE /\ memoryEnabled' = TRUE /\ listeners' = FALSE
    /\ messagesContainer' = <<>> /\ typingIndicator' = FALSE /\ welcomeHidden' = FALSE
    /\ sendBtnDisabled' = FALSE /\ conversationsList' = <<>>
    /\ preferencesList' = EmptyPanel
    /\ submitDisabled' = FALSE /\ errorMessage' = HiddenMessage
    /\ successMessage' = HiddenMessage
    /\ UNCHANGED <<token, username, variant, apiResult, memoryVars>>

\* ------------------------------------------------------ the login page
authFrame == <<page, timers, appVars, domVars, apiResult, memoryVars>>

\* initLogin's submit handler, up to the wait for login()
SubmitLogin(user, password) ==
    /\ page = LoginPage /\ ~submitDisabled /\ InFlight < MaxInFlight
    /\ submitDisabled' = TRUE
    /\ errorMessage' = [errorMessage EXCEPT !.hidden = TRUE]
    /\ net' = Issue(net, Pending(login(user, password), "login"))
    /\ event' = Ev("other")
    /\ UNCHANGED <<href, token, username, successMessage, authFrame>>

\* the text the login handler shows for a reply without access token
LoginFailureText(outcome) ==
    IF outcome.threw THEN outcome.message
    ELSE IF Truthy(Field(outcome.data, "detail")) THEN outcome.data.detail
    ELSE "Login failed"

\* a faulty test that takes every JSON reply for a success
LoginSucceeded_Always(outcome) == ~outcome.threw

\* if (data.access_token)
LoginSucceeded(outcome) ==
    ~outcome.threw /\ Truthy(Field(outcome.data, "access_token"))

\* initLogin's submit handler, from the reply on
OnLoginReply(r, response) ==
    /\ page = LoginPage /\ r.k = "login"
    /\ LET outcome == Settle(r, response)
       IN  IF LoginSucceeded(outcome)
           THEN /\ token' = Field(outcome.data, "access_token")
                /\ username' = r.body.username
                /\ href' = MainPage
                /\ UNCHANGED errorMessage
           ELSE /\ errorMessage' = [hidden |-> FALSE, text |-> LoginFailureText(outcome)]
                /\ UNCHANGED <<token, username, href>>
    /\ submitDisabled' = FALSE
    /\ net' = Without(net, r)
    /\ event' = Ev("other")
    /\ UNCHANGED <<successMessage, authFrame>>

\* ------------------------------------------------ the registration page
\* a faulty comparison that never finds a difference
PasswordsDiffer_Never(password, confirmPassword) == FALSE

\* if (password !== confirmPassword)
PasswordsDiffer(password, confirmPassword) == password # confirmPassword

\* initRegister's submit handler, up to the wait for register()
SubmitRegister(password, confirmPassword) ==
    /\ page = RegisterPage /\ ~submitDisabled
    /\ IF PasswordsDiffer(password, confirmPassword)
       THEN /\ errorMessage' = [hidden |-> FALSE, text |-> "Passwords do not match"]
            /\ event' = Ev("register.mismatch")
            /\ UNCHANGED <<submitDisabled, successMessage, net>>
       ELSE /\ InFlight + timers < MaxInFlight
            /\ submitDisabled' = TRUE
            /\ errorMessage' = [errorMessage EXCEPT !.hidden = TRUE]
            /\ successMessage' = [successMessage EXCEPT !.hidden = TRUE]
            /\ net' = Issue(net, Pending(register("ann", "a@x", password), "register"))
            /\ event' = Ev("register.submit")
    /\ UNCHANGED <<href, token, username, authFrame>>

\* initRegister's submit handler, from the reply on
OnRegisterReply(r, response) ==
    /\ page = RegisterPage /\ r.k = "register"
    /\ LET outcome == Settle(r, response)
       IN  IF ~outcome.threw /\ Truthy(Field(outcome.data, "id"))
           THEN /\ successMessage' =
                      [hidden |-> FALSE,
                       text |-> "Registration successful! Redirecting to login..."]
                /\ timers' = timers + 1
                /\ UNCHANGED errorMessage
           ELSE /\ errorMessage' =
                      [hidden |-> FALSE,
                       text |-> IF outcome.threw THEN outcome.message
                                ELSE IF Truthy(Field(outcome.data, "detail"))
                                     THEN outcome.data.detail
                                     ELSE "Registration failed"]
                /\ UNCHANGED <<successMessage, timers>>
    /\ submitDisabled' = FALSE
    /\ net' = Without(net, r)
    /\ event' = Ev("other")
    /\ UNCHANGED <<href, token, username, page, appVars, domVars, apiResult, memoryVars>>

\* the setTimeout callback of a successful registration
RedirectTimer ==
    /\ page = RegisterPage /\ timers > 0
    /\ timers' = timers - 1
    /\ href' = LoginPage
    /\ event' = Ev("other")
    /\ UNCHANGED <<page, token, username, net, appVars, domVars, formVars, apiResult,
                   memoryVars>>

\* -------------------------------------------------------- the main page
mainFrame == <<page, timers, variant, formVars, apiResult, memoryVars>>

OnMain == page = MainPage

\* the user acts on the main page only while it is not navigating away
UserOnMain == OnMain /\ href = null

\* a faulty logout that leaves the username entry in local storage
ClickLogout_KeepsUsername ==
    /\ UserOnMain
    /\ token' = null
    /\ href' = LoginPage
    /\ event' = Ev("logout")
    /\ UNCHANGED <<username, net, currentSessionId, sessions, messages, isLoading,
                   memoryEnabled, listeners, domVars, mainFrame>>

\* initLogout's click handler
ClickLogout ==
    /\ UserOnMain
    /\ token' = null
    /\ username' = null
    /\ href' = LoginPage
    /\ event' = Ev("logout")
    /\ UNCHANGED <<net, currentSessionId, sessions, messages, isLoading, memoryEnabled,
                   listeners, domVars, mainFrame>>

\* a faulty guard that does not look at isLoading
sendMessage_returns_IgnoresLoading(value) == trim(value) = <<>>

\* sendMessage's early return: if (!message || this.isLoading) return
sendMessage_returns(value) == trim(value) = <<>> \/ isLoading

\* ChatApp.sendMessage, up to the wait for chatAPI.sendMessage; value is what
\* the message box holds when the handler reads it (the handler empties the
\* box, and the user may have typed anything again by the next call)
sendMessage(value) ==
    IF sendMessage_returns(value)
    THEN /\ event' = Ev(IF trim(value) = <<>> THEN "other" ELSE "sendMessage.busy")
         /\ UNCHANGED <<href, token, username, net, currentSessionId, sessions, messages,
                        isLoading, memoryEnabled, listeners, domVars, mainFrame>>
    ELSE /\ Len(messagesContainer) < MaxView /\ InFlight < MaxInFlight
         /\ welcomeHidden' = TRUE
         /\ messagesContainer' =
                Append(messagesContainer, MessageElement("user", trim(value)))
         /\ typingIndicator' = TRUE
         /\ isLoading' = TRUE
         /\ sendBtnDisabled' = TRUE
         /\ net' = Issue(net, Pending(chatAPI_sendMessage(trim(value),
                                           currentSessionId, memoryEnabled,
                                           [model |-> SelectedModel]), "sendMessage"))
         /\ event' = Ev("other")
         /\ UNCHANGED <<href, token, username, currentSessionId, sessions, messages,
                        memoryEnabled, listeners, conversationsList, preferencesList,
                        urlSession, mainFrame>>

\* the send button's click handler (a disabled button gets no click)
ClickSend(value) ==
    /\ UserOnMain /\ listeners /\ ~sendBtnDisabled
    /\ sendMessage(value)

\* the message box's keydown handler, for Enter without Shift
PressEnter(value) ==
    /\ UserOnMain /\ listeners
    /\ sendMessage(value)

\* ChatApp.newChat: the values it leaves
ClickNewChat ==
    /\ UserOnMain /\ listeners
    /\ currentSessionId' = NoSession
    /\ messages' = <<>>
    /\ messagesContainer' = <<>>
    /\ typingIndicator' = FALSE
    /\ welcomeHidden' = FALSE
    /\ event' = Ev("other")
    /\ UNCHANGED <<href, token, username, net, sessions, isLoading, memoryEnabled,
                   listeners, sendBtnDisabled, conversationsList,
                   preferencesList, urlSession, mainFrame>>

RenderedIds == { conversationsList[j].id : j \in 1 .. Len(conversationsList) }

\* a click on a conversation item: ChatApp.loadSession, up to the wait for
\* chatAPI.getSessionMessages
ClickSession(sessionId) ==
    /\ UserOnMain /\ sessionId \in RenderedIds /\ InFlight < MaxInFlight
    /\ currentSessionId' = sessionId
    /\ net' = Issue(net, Pending(chatAPI_getSessionMessages(sessionId), "loadSession"))
    /\ event' = Ev("other")
    /\ UNCHANGED <<href, token, username, sessions, messages, isLoading, memoryEnabled,
                   listeners, domVars, mainFrame>>

\* a faulty loadSession that fetches the messages again when the fetch failed
OnSessionMessages_Retries(r, response) ==
    /\ OnMain /\ r.k = "loadSession"
    /\ LET outcome == Settle(r, response)
       IN  IF outcome.threw
           THEN /\ UNCHANGED <<messages, memoryEnabled, domVars>>
                /\ net' = Issue(Without(net, r), r)
           ELSE /\ messages' = outcome.data.array
                /\ messagesContainer' = MessageElements(outcome.data.array)
                /\ welcomeHidden' = (Len(outcome.data.array) # 0)
                /\ typingIndicator' = FALSE
                /\ conversationsList' = renderSessions(sessions, currentSessionId)
                /\ UNCHANGED <<urlSession, memoryEnabled, sendBtnDisabled, preferencesList>>
                /\ net' = Without(net, r)
    /\ event' = Ev("other")
    /\ UNCHANGED <<href, token, username, currentSessionId, sessions, isLoading,
                   listeners, mainFrame>>

\* ChatApp.loadSession, from the reply on
OnSessionMessages(r, response) ==
    /\ OnMain /\ r.k = "loadSession"
    /\ LET outcome == Settle(r, response)
           sessionId == r.id
           found == { j \in 1 .. Len(sessions) : sessions[j].id = sessionId }
       IN  IF outcome.threw
           THEN UNCHANGED <<messages, memoryEnabled, domVars>>
           ELSE /\ messages' = outcome.data.array
                /\ messagesContainer' = MessageElements(outcome.data.array)
                /\ welcomeHidden' = (Len(outcome.data.array) # 0)
                /\ typingIndicator' = FALSE
                /\ conversationsList' = renderSessions(sessions, currentSessionId)
                /\ UNCHANGED urlSession
                /\ memoryEnabled' =
                       IF found = {} THEN memoryEnabled
                       ELSE sessions[CHOOSE j \in found : \A l \in found : j <= l].memory_enabled
                /\ UNCHANGED <<sendBtnDisabled, preferencesList>>
    /\ net' = Without(net, r)
    /\ event' = Ev("other")
    /\ UNCHANGED <<href, token, username, currentSessionId, sessions, isLoading,
                   listeners, mainFrame>>

\* a faulty deleteSession that does not look at the answer to confirm()
ClickDelete_IgnoresAnswer(sessionId, confirmed) ==
    /\ UserOnMain /\ sessionId \in RenderedIds
    /\ InFlight < MaxInFlight
    /\ net' = Issue(net, Pending(chatAPI_deleteSession(sessionId), "deleteSession"))
    /\ event' = Ev("other")
    /\ UNCHANGED <<href, token, username, currentSessionId, sessions, messages,
                   isLoading, memoryEnabled, listeners, domVars, mainFrame>>

\* a click on a conversation's delete button: ChatApp.deleteSession, up to
\* the wait for chatAPI.deleteSession; confirmed is the user's answer to
\* confirm()
ClickDelete(sessionId, confirmed) ==
    /\ UserOnMain /\ sessionId \in RenderedIds
    /\ IF confirmed
       THEN /\ InFlight < MaxInFlight
            /\ net' = Issue(net, Pending(chatAPI_deleteSession(sessionId), "deleteSession"))
            /\ event' = Ev("other")
       ELSE /\ UNCHANGED net
            /\ event' = Ev("other")
    /\ UNCHANGED <<href, token, username, currentSessionId, sessions, messages,
                   isLoading, memoryEnabled, listeners, domVars, mainFrame>>

\* a faulty comparison that never takes the deleted session for the open one
deleteSession_clears_Never(sessionId) == FALSE

\* if (this.currentSessionId === sessionId) this.newChat()
deleteSession_clears(sessionId) == currentSessionId = sessionId

\* ChatApp.deleteSession, from the reply to the wait for loadSessions
OnSessionDeleted(r, response) ==
    /\ OnMain /\ r.k = "deleteSession"
    /\ LET outcome == Settle(r, response)
       IN  IF outcome.threw
           THEN /\ net' = Without(net, r)
                /\ UNCHANGED <<currentSessionId, messages, messagesContainer,
                               typingIndicator, welcomeHidden, urlSession>>
           ELSE /\ IF deleteSession_clears(r.id)
                   THEN /\ currentSessionId' = NoSession
                        /\ messages' = <<>>
                        /\ messagesContainer' = <<>>
                        /\ typingIndicator' = FALSE
                        /\ welcomeHidden' = FALSE
                        /\ UNCHANGED urlSession
                   ELSE UNCHANGED <<currentSessionId, messages, messagesContainer,
                                    typingIndicator, welcomeHidden, urlSession>>
                /\ net' = IssueLoad(Without(net, r), "deleteSession.loadSessions")
    /\ event' = Ev(IF Settle(r, response).threw THEN "deleteSession.failed"
                   ELSE IF deleteSession_clears(r.id) THEN "deleteSession.newChat"
                   ELSE "other")
    /\ UNCHANGED <<href, token, username, sessions, isLoading, memoryEnabled, listeners,
                   sendBtnDisabled, conversationsList, preferencesList,
                   mainFrame>>

\* a faulty loadSessions that drops the list it fetched
LoadedSessions_Drops(outcome) == sessions

\* ChatApp.loadSessions, from the reply on: this.sessions and the rendered
\* list it leaves (an error is logged and both stay)
LoadedSessions(outcome) == IF outcome.threw THEN sessions ELSE outcome.data.array

\* what the step that applies the reply to r is recorded as: stale when the
\* list of a loadSessions call issued after r's was applied before
ListEvent(r, outcome) ==
    Ev(IF r.overtaken /\ ~outcome.threw THEN "loadSessions.stale" ELSE "other")

LoadedList(outcome, current) ==
    IF outcome.threw THEN conversationsList
    ELSE renderSessions(outcome.data.array, current)

\* ChatApp.deleteSession, from the reply to loadSessions on
OnDeleteSessionsLoaded(r, response) ==
    /\ OnMain /\ r.k = "deleteSession.loadSessions"
    /\ LET outcome == Settle(r, response)
       IN  /\ sessions' = LoadedSessions(outcome)
           /\ conversationsList' = LoadedList(outcome, currentSessionId)
           /\ net' = Answered(net, r, ~outcome.threw)
           /\ event' = ListEvent(r, outcome)
    /\ UNCHANGED <<href, token, username, currentSessionId, messages, isLoading,
                   memoryEnabled, listeners, messagesContainer, typingIndicator,
                   welcomeHidden, sendBtnDisabled, preferencesList,
                   urlSession, mainFrame>>

\* part_001 calls this.loadPreferences() at the end of a successful send;
\* app.js defines loadPreferences and never calls it
PreferencesRequest ==
    IF variant = "part_001"
    THEN SetToBag({Pending(memoryAPI_getPreferences, "loadPreferences")})
    ELSE EmptyBag

\* if (!this.currentSessionId)
NoCurrentSession == currentSessionId = NoSession \/ currentSessionId = 0

\* a faulty showError that raises no alert
SendFailedAlert_Silent == null

\* this.showError('Failed to send message. Please try again.')
SendFailedAlert == "Failed to send message. Please try again."

\* ChatApp.sendMessage, from the reply of chatAPI.sendMessage to the wait
\* for loadSessions or to the end
OnChatReply(r, response) ==
    /\ OnMain /\ r.k = "sendMessage"
    /\ LET outcome == Settle(r, response)
       IN  IF outcome.threw
           THEN \* catch: hideTypingIndicator, showError; finally
                /\ typingIndicator' = FALSE
                /\ isLoading' = FALSE /\ sendBtnDisabled' = FALSE
                /\ net' = Without(net, r)
                /\ event' = [op |-> "other", alert |-> SendFailedAlert]
                /\ UNCHANGED <<currentSessionId, messagesContainer>>
           ELSE IF "message" \notin DOMAIN outcome.data
           THEN \* formatMessage(undefined) throws inside addMessageToUI
                /\ typingIndicator' = FALSE
                /\ isLoading' = FALSE /\ sendBtnDisabled' = FALSE
                /\ net' = Without(net, r)
                /\ event' = [op |-> "other", alert |-> SendFailedAlert]
                /\ UNCHANGED <<currentSessionId, messagesContainer>>
           ELSE /\ typingIndicator' = FALSE
                /\ messagesContainer' =
                       Append(messagesContainer,
                              MessageElement("assistant", outcome.data.message))
                /\ event' = Ev("other")
                /\ IF NoCurrentSession
                   THEN /\ currentSessionId' = outcome.data.session_id
                        /\ net' = IssueLoad(Without(net, r), "sendMessage.loadSessions")
                        /\ UNCHANGED <<isLoading, sendBtnDisabled>>
                   ELSE /\ net' = Without(net, r) (+) PreferencesRequest
                        /\ isLoading' = FALSE /\ sendBtnDisabled' = FALSE
                        /\ UNCHANGED currentSessionId
    /\ UNCHANGED <<href, token, username, sessions, messages, memoryEnabled, listeners,
                   welcomeHidden, conversationsList, preferencesList,
                   urlSession, mainFrame>>

\* a faulty sendMessage without the finally block after loadSessions
OnSendSessionsLoaded_KeepsLoading(r, response) ==
    /\ OnMain /\ r.k = "sendMessage.loadSessions"
    /\ LET outcome == Settle(r, response)
       IN  /\ sessions' = LoadedSessions(outcome)
           /\ conversationsList' = LoadedList(outcome, currentSessionId)
           /\ net' = Answered(net, r, ~outcome.threw) (+) PreferencesRequest
           /\ event' = ListEvent(r, outcome)
    /\ UNCHANGED <<href, token, username, currentSessionId, messages, memoryEnabled,
                   listeners, messagesContainer, typingIndicator, welcomeHidden,
                   preferencesList, urlSession, mainFrame, isLoading, sendBtnDisabled>>

\* ChatApp.sendMessage, from the reply to loadSessions on
OnSendSessionsLoaded(r, response) ==
    /\ OnMain /\ r.k = "sendMessage.loadSessions"
    /\ LET outcome == Settle(r, response)
       IN  /\ sessions' = LoadedSessions(outcome)
           /\ conversationsList' = LoadedList(outcome, currentSessionId)
           /\ net' = Answered(net, r, ~outcome.threw) (+) PreferencesRequest
           /\ event' = ListEvent(r, outcome)
    /\ isLoading' = FALSE /\ sendBtnDisabled' = FALSE
    /\ UNCHANGED <<href, token, username, currentSessionId, messages, memoryEnabled,
                   listeners, messagesContainer, typingIndicator, welcomeHidden,
                   preferencesList, urlSession, mainFrame>>

\* ChatApp.loadPreferences, from the reply on
OnPreferences(r, response) ==
    /\ OnMain /\ r.k = "loadPreferences"
    /\ LET outcome == Settle(r, response)
       IN  preferencesList' =
               IF outcome.threw THEN preferencesList
               ELSE renderPreferences(IF "preferences" \in DOMAIN outcome.data
                                      THEN outcome.data.preferences ELSE Undefined)
    /\ net' = Without(net, r)
    /\ event' = Ev("other")
    /\ UNCHANGED <<href, token, username, currentSessionId, sessions, messages,
                   isLoading, memoryEnabled, listeners, messagesContainer,
                   typingIndicator, welcomeHidden, sendBtnDisabled, conversationsList, urlSession, mainFrame>>

\* app.js init(), from the reply to its first loadSessions to the wait for
\* the second: requireAuth, loadUserProfile, loadSessions
OnInitSessions1(r, response) ==
    /\ OnMain /\ r.k = "init.loadSessions.1"
    /\ LET outcome == Settle(r, response)
       IN  /\ sessions' = LoadedSessions(outcome)
           /\ conversationsList' = LoadedList(outcome, currentSessionId)
           /\ net' = IssueLoad(Answered(net, r, ~outcome.threw), "init.loadSessions.2")
           /\ event' = ListEvent(r, outcome)
    /\ href' = requireAuth(page, href)
    /\ UNCHANGED <<token, username, currentSessionId, messages, isLoading,
                   memoryEnabled, listeners, messagesContainer, typingIndicator,
                   welcomeHidden, sendBtnDisabled, preferencesList,
                   urlSession, mainFrame>>

\* init(), from the reply to the loadSessions before setupEventListeners to
\* the wait for loadSession or to the end
OnInitSessions2(r, response) ==
    /\ OnMain /\ r.k = "init.loadSessions.2"
    /\ LET outcome == Settle(r, response)
       IN  /\ sessions' = LoadedSessions(outcome)
           /\ conversationsList' = LoadedList(outcome, currentSessionId)
           /\ event' = ListEvent(r, outcome)
           /\ IF urlSession # NoSession
              THEN /\ currentSessionId' = urlSession
                   /\ net' = Issue(Answered(net, r, ~outcome.threw),
                                    Pending(chatAPI_getSessionMessages(urlSession),
                                            "loadSession"))
              ELSE /\ net' = Answered(net, r, ~outcome.threw)
                   /\ UNCHANGED currentSessionId
    /\ listeners' = TRUE
    /\ urlSession' = NoSession
    /\ UNCHANGED <<href, token, username, messages, isLoading, memoryEnabled,
                   messagesContainer, typingIndicator, welcomeHidden, sendBtnDisabled,
                   preferencesList, mainFrame>>

\* ------------------------------------------------------------- the pages
\* the steps of the pages running app.js
NextApp ==
    \/ PageLoad
    \/ SubmitLogin("ann", "pw")
    \/ \E r \in Awaited("login") : \E response \in Responses(r) : OnLoginReply(r, response)
    \/ \E password, confirmPassword \in {"pw", "pw2"} : SubmitRegister(password, confirmPassword)
    \/ \E r \in Awaited("register") : \E response \in Responses(r) : OnRegisterReply(r, response)
    \/ RedirectTimer
    \/ ClickLogout
    \/ \E value \in InputValues : ClickSend(value)
    \/ \E value \in InputValues : PressEnter(value)
    \/ ClickNewChat
    \/ \E sessionId \in SessionIds : ClickSession(sessionId)
    \/ \E sessionId \in SessionIds, confirmed \in BOOLEAN : ClickDelete(sessionId, confirmed)
    \/ \E r \in Awaited("loadSession") : \E response \in Responses(r) :
          OnSessionMessages(r, response)
    \/ \E r \in Awaited("deleteSession") : \E response \in Responses(r) :
          OnSessionDeleted(r, response)
    \/ \E r \in Awaited("deleteSession.loadSessions") : \E response \in Responses(r) :
          OnDeleteSessionsLoaded(r, response)
    \/ \E r \in Awaited("sendMessage") : \E response \in Responses(r) :
          OnChatReply(r, response)
    \/ \E r \in Awaited("sendMessage.loadSessions") : \E response \in Responses(r) :
          OnSendSessionsLoaded(r, response)
    \/ \E r \in Awaited("init.loadSessions.1") : \E response \in Responses(r) :
          OnInitSessions1(r, response)
    \/ \E r \in Awaited("init.loadSessions.2") : \E response \in Responses(r) :
          OnInitSessions2(r, response)

\* the steps of the pages running either copy of the chat controller
Next ==
    \/ NextApp
    \/ \E r \in Awaited("loadPreferences") : \E response \in Responses(r) :
          OnPreferences(r, response)

Spec == Init /\ [][Next]_vars

\* the pages as app.js runs them
InitApp == Init /\ variant = "app.js"

SpecApp == InitApp /\ [][NextApp]_vars

\* the network answers a /chat request in flight, with a response or an error
ChatAnswered ==
    \E r \in Awaited("sendMessage") : \E response \in Responses(r) : OnChatReply(r, response)

\* the network answers the session-list request that follows a first message
SendListAnswered ==
    \E r \in Awaited("sendMessage.loadSessions") : \E response \in Responses(r) :
        OnSendSessionsLoaded(r, response)

\* the pages as app.js runs them, on a network that answers every request a
\* send waits for
SpecAppLive == SpecApp /\ WF_vars(ChatAnswered) /\ WF_vars(SendListAnswered)

\* the main page of app.js for a signed-in user who chats: init, sends, new
\* chats, opening conversations, and logging out, which leaves the page
InitSend == InitApp /\ page = MainPage /\ token # null

NextSend ==
    \/ \E value \in InputValues : ClickSend(value)
    \/ \E value \in InputValues : PressEnter(value)
    \/ ClickNewChat
    \/ \E sessionId \in SessionIds : ClickSession(sessionId)
    \/ \E r \in Awaited("loadSession") : \E response \in Responses(r) :
          OnSessionMessages(r, response)
    \/ ChatAnswered
    \/ SendListAnswered
    \/ ClickLogout
    \/ PageLoad
    \/ \E r \in Awaited("init.loadSessions.1") : \E response \in Responses(r) :
          OnInitSessions1(r, response)
    \/ \E r \in Awaited("init.loadSessions.2") : \E response \in Responses(r) :
          OnInitSessions2(r, response)

SpecSendLive ==
    InitSend /\ [][NextSend]_vars /\ WF_vars(ChatAnswered) /\ WF_vars(SendListAnswered)

\* ------------------------------------------------- the MemoryManager alone
\* The module's importer calls init, startAutoUpdate and stopAutoUpdate; the
\* browser fires the interval timers and delivers the replies.
MaxTimers == 2

\* formatKey(key)
formatKey(key) == IF key = <<>> THEN <<>> ELSE <<Upper(Head(key))>> \o Tail(key)

\* the category divs MemoryManager.renderPreferences appends
RECURSIVE MemoryGroups(_)
MemoryGroups(entries) ==
    IF entries = <<>> THEN <<>>
    ELSE (IF Head(entries).array /\ Len(Head(entries).values) > 0
          THEN <<[h5 |-> formatKey(Head(entries).key),
                  items |-> EscapeAll(Head(entries).values)]>>
          ELSE <<>>) \o MemoryGroups(Tail(entries))

\* MemoryManager.renderPreferences(): the panel it leaves for this.preferences
MemoryManager_renderPreferences(prefs) ==
    IF Len(prefs.entries) = 0 THEN Placeholder
    ELSE [placeholder |-> FALSE, groups |-> MemoryGroups(prefs.entries)]

\* data.preferences || {}
PreferencesOrEmpty(data) ==
    IF "preferences" \in DOMAIN data /\ data.preferences.defined
    THEN data.preferences ELSE Mapping(<<>>)

Likes(values) == Mapping(<<[key |-> <<"l", "i", "k", "e", "s">>, array |-> TRUE,
                           values |-> values]>>)

\* the preference mappings the backend answers with
MemoryPreferenceInputs ==
    { Mapping(<<>>), Likes(<<>>), Likes(<<<<"t", "e", "a">>>>), Likes(<<<<"<", "b", ">">>>>) }

\* the answers the network can give to MemoryManager's preferences fetch
MemoryResponses ==
    Failures
        \cup { HttpResponse(TRUE, [preferences |-> p]) : p \in MemoryPreferenceInputs }
        \cup { HttpResponse(TRUE, [status |-> "empty"]) }

InitMemory ==
    /\ page = "memory" /\ href = null /\ token \in Tokens /\ username = null
    /\ net = EmptyBag /\ timers = 0 /\ event = NoEvent
    /\ variant = "app.js" /\ currentSessionId = NoSession /\ sessions = <<>>
    /\ messages = <<>> /\ isLoading = FALSE /\ memoryEnabled = TRUE /\ listeners = FALSE
    /\ messagesContainer = <<>> /\ typingIndicator = FALSE /\ welcomeHidden = FALSE
    /\ sendBtnDisabled = FALSE /\ conversationsList = <<>>
    /\ preferencesList = EmptyPanel /\ urlSession = NoSession
    /\ submitDisabled = FALSE /\ errorMessage = HiddenMessage
    /\ successMessage = HiddenMessage /\ apiResult = NoResult
    /\ MemoryManager_constructor

memoryFrame == <<page, href, token, username, timers, appVars, messagesContainer,
                 typingIndicator, welcomeHidden, sendBtnDisabled, conversationsList,
                 urlSession, formVars, apiResult>>

\* a faulty loadPreferences whose catch block resets the preferences
loadPreferences_settle_ResetsOnError(r, response) ==
    LET outcome == Settle(r, response)
    IN  IF outcome.threw
        THEN /\ mmPreferences' = Mapping(<<>>)
             /\ preferencesList' = Placeholder
             /\ event' = Ev("loadPreferences.caught")
        ELSE /\ mmPreferences' = PreferencesOrEmpty(outcome.data)
             /\ preferencesList' =
                    MemoryManager_renderPreferences(PreferencesOrEmpty(outcome.data))
             /\ event' = Ev("loadPreferences.rendered")

\* loadPreferences(), from the reply on: try { preferences = ...; render }
\* catch { console.error }
loadPreferences_settle(r, response) ==
    LET outcome == Settle(r, response)
    IN  IF outcome.threw
        THEN /\ UNCHANGED <<mmPreferences, preferencesList>>
             /\ event' = Ev("loadPreferences.caught")
        ELSE /\ mmPreferences' = PreferencesOrEmpty(outcome.data)
             /\ preferencesList' =
                    MemoryManager_renderPreferences(PreferencesOrEmpty(outcome.data))
             /\ event' = Ev("loadPreferences.rendered")

\* setInterval(...): timer ids are handed out in increasing order, so the
\* next one follows the last one stored in updateInterval
setInterval_id == updateInterval + 1

\* startAutoUpdate(): this.updateInterval = setInterval(...)
startAutoUpdate ==
    /\ updateInterval < MaxTimers
    /\ updateInterval' = setInterval_id
    /\ intervals' = intervals \cup {setInterval_id}

\* memoryManager.init(), up to the wait for the preferences
MemoryManager_init ==
    /\ InFlight < MaxInFlight
    /\ net' = Issue(net, Pending(memoryAPI_getPreferences, "MemoryManager.init"))
    /\ event' = Ev("init")
    /\ UNCHANGED <<preferencesList, memoryVars, memoryFrame>>

\* init(), from the reply on: the rest of loadPreferences, then
\* startAutoUpdate
OnInitPreferences(r, response) ==
    /\ r.k = "MemoryManager.init"
    /\ loadPreferences_settle(r, response)
    /\ startAutoUpdate
    /\ net' = Without(net, r)
    /\ UNCHANGED memoryFrame

\* a direct call of memoryManager.startAutoUpdate()
StartAutoUpdate ==
    /\ startAutoUpdate
    /\ event' = Ev("startAutoUpdate")
    /\ UNCHANGED <<net, mmPreferences, preferencesList, memoryFrame>>

\* memoryManager.stopAutoUpdate(): clearInterval(this.updateInterval) when
\* the field is set; the field keeps its value
StopAutoUpdate ==
    /\ intervals' = IF updateInterval # NoTimer THEN intervals \ {updateInterval}
                    ELSE intervals
    /\ event' = Ev("stopAutoUpdate")
    /\ UNCHANGED <<net, mmPreferences, updateInterval, preferencesList, memoryFrame>>

\* a running interval timer fires: this.loadPreferences(), up to the wait
Tick(id) ==
    /\ id \in intervals
    /\ InFlight < MaxInFlight
    /\ net' = Issue(net, Pending(memoryAPI_getPreferences, "MemoryManager.loadPreferences"))
    /\ event' = Ev("tick")
    /\ UNCHANGED <<preferencesList, memoryVars, memoryFrame>>

\* the polled loadPreferences(), from the reply on
OnPolledPreferences(r, response) ==
    /\ r.k = "MemoryManager.loadPreferences"
    /\ loadPreferences_settle(r, response)
    /\ net' = Without(net, r)
    /\ UNCHANGED <<updateInterval, intervals, memoryFrame>>

NextMemory ==
    \/ MemoryManager_init
    \/ \E r \in Awaited("MemoryManager.init") : \E response \in MemoryResponses :
          OnInitPreferences(r, response)
    \/ StartAutoUpdate
    \/ StopAutoUpdate
    \/ \E id \in 1..MaxTimers : Tick(id)
    \/ \E r \in Awaited("MemoryManager.loadPreferences") : \E response \in MemoryResponses :
          OnPolledPreferences(r, response)

SpecMemory == InitMemory /\ [][NextMemory]_vars

\* ------------------------------------------------------------- properties
\* the requests in flight that resume a handler at k, counted
CountAwaited(k) == BagCardinality([r \in Awaited(k) |-> CopiesIn(r, net)])

\* the requests a step has put in flight
Issued == { r \in BagToSet(net') : CopiesIn(r, net') > CopiesIn(r, net) }

Succeeded(response) == response.kind = "http" /\ response.json /\ response.ok

\* C1: a sendMessage call made while an earlier send is pending (isLoading)
\* issues no request, appends nothing to the message view and changes no
\* controller state; and at most one /chat request is in flight at any time.
C1_SendWhileLoadingIsNoOp ==
    /\ [](CountAwaited("sendMessage") <= 1)
    /\ [][\A value \in InputValues :
            (isLoading /\ (ClickSend(value) \/ PressEnter(value)))
                => UNCHANGED <<net, appVars, domVars, href, token, username>>]_vars

C1_Witness ==
    /\ event.op = "sendMessage.busy"
    /\ isLoading
    /\ CountAwaited("sendMessage") = 1

\* C2: every text that reaches the DOM as markup has passed through
\* escapeHtml, so none of it opens an element: a rendered message holds only
\* the elements formatMessage writes, and a rendered session title,
\* preference category or preference value holds none.
C2_AllTextEscaped ==
    /\ \A j \in 1 .. Len(messagesContainer) :
          Elements(messagesContainer[j].html) \subseteq FormatElements
    /\ \A j \in 1 .. Len(conversationsList) :
          Elements(conversationsList[j].title) = {}
    /\ \A j \in 1 .. Len(preferencesList.groups) :
          /\ Elements(preferencesList.groups[j].h5) = {}
          /\ \A i \in 1 .. Len(preferencesList.groups[j].items) :
                Elements(preferencesList.groups[j].items[i]) = {}

\* the text the server gave for a failed login, or the fallback
ServerTextOrFallback(response) ==
    IF response.kind = "http" /\ response.json /\ Truthy(Field(response.body, "detail"))
    THEN response.body.detail
    ELSE "Login failed"

CarriesToken(response) ==
    response.kind = "http" /\ response.json
        /\ Truthy(Field(response.body, "access_token"))

\* what every reply to a login does, but for the text a failure shows
LoginOutcome(r, response, shown) ==
    IF CarriesToken(response)
    THEN /\ token' = response.body.access_token
         /\ username' = r.body.username
         /\ href' = MainPage
    ELSE /\ errorMessage' = [hidden |-> FALSE, text |-> shown]
         /\ UNCHANGED <<token, username, href>>

\* C3: a login reply that carries an access token stores the token and the
\* username and navigates to the main page; a reply without access token
\* shows the server's detail text or the fallback 'Login failed', and a
\* request error (the fetch rejects, or the body is not JSON) shows the
\* error's own message; neither failure writes to local storage or navigates.
C3_LoginOutcome ==
    [][\A r \in Awaited("login") : \A response \in Responses(r) :
          OnLoginReply(r, response)
              => LoginOutcome(r, response,
                              IF response.kind = "network_error" THEN "Failed to fetch"
                              ELSE IF ~response.json THEN "Unexpected token in JSON"
                              ELSE ServerTextOrFallback(response))]_vars

\* C3 as stated: every failed login, a request error included, shows the
\* server's error text or the fallback 'Login failed'.
C3_FailureShowsServerTextOrFallback ==
    [][\A r \in Awaited("login") : \A response \in Responses(r) :
          OnLoginReply(r, response)
              => LoginOutcome(r, response, ServerTextOrFallback(response))]_vars

C3_Witness ==
    /\ page = LoginPage /\ href = null /\ token = null
    /\ errorMessage = [hidden |-> FALSE, text |-> "Failed to fetch"]

\* C4: a registration submitted with differing password and confirmation
\* issues no request, shows 'Passwords do not match' and schedules no
\* navigation.
C4_MismatchBlocksSubmission ==
    [][\A password, confirmPassword \in {"pw", "pw2"} :
          (SubmitRegister(password, confirmPassword) /\ password # confirmPassword)
              => /\ net' = net
                 /\ timers' = timers /\ href' = href
                 /\ errorMessage' = [hidden |-> FALSE, text |-> "Passwords do not match"]]_vars

C4_Witness ==
    /\ page = RegisterPage
    /\ event.op = "register.mismatch"
    /\ errorMessage = [hidden |-> FALSE, text |-> "Passwords do not match"]
    /\ net = EmptyBag /\ timers = 0 /\ href = null

\* C5: when the DELETE of a session succeeds, the session list is requested
\* again; if the deleted session is the open one, currentSessionId becomes
\* null, messages and the view become empty and the welcome state is shown,
\* otherwise currentSessionId and messages stay as they are.
C5_DeleteClearsOpenSession ==
    [][\A r \in Awaited("deleteSession") : \A response \in Responses(r) :
          (OnSessionDeleted(r, response) /\ Succeeded(response))
              => /\ CountAwaited("deleteSession.loadSessions")'
                        = CountAwaited("deleteSession.loadSessions") + 1
                 /\ IF currentSessionId = r.id
                    THEN /\ currentSessionId' = NoSession
                         /\ messages' = <<>> /\ messagesContainer' = <<>>
                         /\ ~welcomeHidden'
                    ELSE UNCHANGED <<currentSessionId, messages>>]_vars

C5_Witness ==
    /\ event.op = "deleteSession.newChat"
    /\ currentSessionId = NoSession /\ messages = <<>> /\ messagesContainer = <<>>
    /\ ~welcomeHidden
    /\ CountAwaited("deleteSession.loadSessions") > 0

\* C6: a call of an API-client operation that is answered with a non-success
\* status (and a JSON body) raises an error whose message is the body's detail
\* field, or 'API call failed' when there is none; it does not return the body.
C6_NonOkRaises ==
    (apiResult.op # "none" /\ apiResult.response.kind = "http"
        /\ apiResult.response.json /\ ~apiResult.response.ok)
    => /\ apiResult.threw
       /\ apiResult.message =
              IF Truthy(Field(apiResult.response.body, "detail"))
              THEN apiResult.response.body.detail ELSE "API call failed"

HasAuthorization(r) == "Authorization" \in DOMAIN r.headers

\* the request carries the token stored when it was issued, or no
\* Authorization header when none was stored
CarriesStoredToken(r) ==
    IF token # null
    THEN HasAuthorization(r) /\ r.headers.Authorization = Bearer(token)
    ELSE ~HasAuthorization(r)

\* C7: every request of an API-client operation other than login carries
\* 'Authorization: Bearer <token>' with the token stored when the call is made,
\* and no Authorization header when none is stored; a login request never
\* carries the header.
C7_BearerTokenExceptLogin ==
    [][\A r \in Issued :
          IF r.endpoint = "/login" THEN ~HasAuthorization(r)
          ELSE CarriesStoredToken(r)]_vars

\* C7 as stated: every operation, login included, attaches the stored token.
C7_EveryOperationCarriesToken ==
    [][\A r \in Issued : CarriesStoredToken(r)]_vars

C7_Witness ==
    /\ token # null
    /\ \E r \in BagToSet(net) :
          /\ r.endpoint = "/sessions"
          /\ HasAuthorization(r) /\ r.headers.Authorization = Bearer(token)

\* C8: logout removes the token and the username from local storage and
\* navigates to the login view; afterwards isAuthenticated() is false and
\* neither entry is stored.
C8_LogoutClearsStorage ==
    /\ [][ClickLogout => (token' = null /\ username' = null /\ href' = LoginPage
                            /\ ~isAuthenticated')]_vars
    /\ [](event.op = "logout" => (token = null /\ username = null /\ ~isAuthenticated))

C8_Witness ==
    /\ event.op = "logout"
    /\ page = MainPage /\ href = LoginPage
    /\ token = null /\ username = null

\* C9: right after the main page has loaded, with no token stored the browser
\* is headed for the login view, no request has been issued and no listener
\* is installed; with a token stored no redirect is pending.
C9_NoTokenStopsInit ==
    (event.op = "DOMContentLoaded" /\ page = MainPage)
    => IF token = null
       THEN href = LoginPage /\ net = EmptyBag /\ ~listeners
       ELSE href = null

\* C10: a send appends the user's message and issues the /chat request; the
\* successful reply appends the assistant's message; then, if no session is
\* current (currentSessionId is null), currentSessionId becomes the reply's
\* session_id and the session list is requested again, and if a session is
\* current, currentSessionId stays and the list is not requested.
C10_SendOrderAndLazySession ==
    [][/\ \A value \in InputValues :
             ((ClickSend(value) \/ PressEnter(value)) /\ ~sendMessage_returns(value))
                 => /\ messagesContainer' =
                           Append(messagesContainer, MessageElement("user", trim(value)))
                    /\ \E r \in Issued : r.endpoint = "/chat" /\ r.body.message = trim(value)
       /\ \A r \in Awaited("sendMessage") : \A response \in Responses(r) :
             (OnChatReply(r, response) /\ Succeeded(response)
                 /\ "message" \in DOMAIN response.body)
                 => /\ messagesContainer' =
                           Append(messagesContainer,
                                  MessageElement("assistant", response.body.message))
                    /\ IF currentSessionId = NoSession
                       THEN /\ currentSessionId' = response.body.session_id
                            /\ CountAwaited("sendMessage.loadSessions")'
                                  = CountAwaited("sendMessage.loadSessions") + 1
                       ELSE /\ currentSessionId' = currentSessionId
                            /\ CountAwaited("sendMessage.loadSessions")'
                                  = CountAwaited("sendMessage.loadSessions")]_vars
\* C11: a preferences fetch that fails during polling is caught: nothing is
\* raised to the page, this.preferences and the rendered panel keep the
\* values of the last successful fetch, and the timers that were running
\* keep running, so that the next tick can issue a poll.
C11_FailedPollKeepsState ==
    [][\A r \in Awaited("MemoryManager.loadPreferences") : \A response \in MemoryResponses :
          OnPolledPreferences(r, response) /\ Settle(r, response).threw
              => /\ mmPreferences' = mmPreferences
                 /\ preferencesList' = preferencesList
                 /\ intervals' = intervals /\ updateInterval' = updateInterval
                 /\ event'.alert = null /\ apiResult' = apiResult
                 /\ InFlight' < MaxInFlight]_vars

\* a poll failed after preferences had been fetched and rendered, while a
\* timer was running
C11_Witness ==
    /\ event.op = "loadPreferences.caught"
    /\ intervals # {}
    /\ mmPreferences = Likes(<<<<"t", "e", "a">>>>)
    /\ preferencesList.groups # <<>>

\* the answers that make a request fail: the fetch rejects, the body is not
\* JSON, or the status is not a success
FailedResponses ==
    { NetworkError, NotJson(TRUE), NotJson(FALSE), Unauthorized,
      HttpResponse(FALSE, [detail |-> "Incorrect username or password"]),
      HttpResponse(FALSE, [detail |-> "Username already registered"]),
      HttpResponse(FALSE, [error |-> "no detail field"]) }

\* a reply step of one of the actions that can fail: login, registration,
\* send, session load, delete, preferences fetch
FailedReply(r, response) ==
    IF r.k = "login" THEN OnLoginReply(r, response)
    ELSE IF r.k = "register" THEN OnRegisterReply(r, response)
    ELSE IF r.k = "sendMessage" THEN OnChatReply(r, response)
    ELSE IF r.k = "loadSession" THEN OnSessionMessages(r, response)
    ELSE IF r.k = "deleteSession" THEN OnSessionDeleted(r, response)
    ELSE IF r.k = "loadPreferences" THEN OnPreferences(r, response)
    ELSE IF r.k = "MemoryManager.loadPreferences" THEN OnPolledPreferences(r, response)
    ELSE FALSE

\* the requests whose reply a step may have handled: those it took from the
\* network, or any of them when the network is as it was before
Taken ==
    IF net' = net THEN BagToSet(net)
    ELSE { q \in BagToSet(net) : CopiesIn(q, net') < CopiesIn(q, net) }

\* C12: no step sends more than one request for one invocation of an
\* API-client operation, and the step that handles a failed login,
\* registration, send, session load, delete or preferences fetch sends no
\* request at all: the failed request leaves the network and nothing takes
\* its place until another user action or timer tick.
C12_OneRequestNoRetry ==
    [][/\ InFlight' <= InFlight + 1
       /\ \A r \in Taken :
             net' # Without(net, r)
                 => \A response \in FailedResponses : ~FailedReply(r, response)]_vars

\* every answer of the network that is not a success is one of FailedResponses
C12_FailuresCovered ==
    \A r \in BagToSet(net) : \A response \in Responses(r) \cup MemoryResponses :
        Succeeded(response) \/ response \in FailedResponses

\* a send has failed and no request is in flight any more
C12_Witness ==
    /\ event.alert = SendFailedAlert
    /\ net = EmptyBag
    /\ ~isLoading

\* the steps that resume loadSessions with the reply to r
ListReply(r, response) ==
    \/ OnDeleteSessionsLoaded(r, response)
    \/ OnSendSessionsLoaded(r, response)
    \/ OnInitSessions1(r, response)
    \/ OnInitSessions2(r, response)

\* C13: loadSessions calls may overlap, and nothing orders their replies:
\* a list that arrives is stored and rendered even when the list of a call
\* issued later has been applied already, so this.sessions and the rendered
\* list end up holding the older data.
C13_LateReplyIsApplied ==
    [][\A r \in ListLoadsIn(net) : \A response \in Responses(r) :
          ListReply(r, response) /\ Succeeded(response)
              => /\ sessions' = response.body.array
                 /\ conversationsList' = renderSessions(response.body.array, currentSessionId')]_vars

\* the reply to init's loadSessions call has just been applied over the
\* list that a later call, made by deleteSession or sendMessage, had fetched
C13_Witness ==
    /\ event.op = "loadSessions.stale"
    /\ ListLoadsIn(net) = {}
    /\ Len(conversationsList) = Len(sessions)

\* the example's overlap: the loadSessions of a delete and the loadSessions
\* of a first-message send are in flight at once
C13_DeleteAndSendOverlap ==
    /\ Awaited("deleteSession.loadSessions") # {}
    /\ Awaited("sendMessage.loadSessions") # {}

\* C14: when the /chat request rejects or returns a non-success status, the
\* step that handles the failure raises the alert, removes the typing
\* indicator, appends nothing to the view, so that the user's message stays
\* in it, and leaves currentSessionId as it was.
C14_FailedSendIsReported ==
    [][\A r \in Awaited("sendMessage") : \A response \in Responses(r) :
          OnChatReply(r, response) /\ ~Succeeded(response)
              => /\ event'.alert = "Failed to send message. Please try again."
                 /\ ~typingIndicator'
                 /\ messagesContainer' = messagesContainer
                 /\ currentSessionId' = currentSessionId
                 /\ messages' = messages]_vars

\* a send failed: the alert is up, the indicator is gone and the last
\* element of the view is the user's message
C14_Witness ==
    /\ event.alert = "Failed to send message. Please try again."
    /\ ~typingIndicator
    /\ Len(messagesContainer) > 0
    /\ messagesContainer[Len(messagesContainer)].role = "user"
    /\ currentSessionId = 1

\* the categories of a mapping whose value is a non-empty list
RECURSIVE NonEmptyCategories(_)
NonEmptyCategories(entries) ==
    IF entries = <<>> THEN <<>>
    ELSE (IF Head(entries).array /\ Head(entries).values # <<>>
          THEN <<Head(entries)>> ELSE <<>>) \o NonEmptyCategories(Tail(entries))

\* C15: renderPreferences leaves one group for each category whose value is
\* a non-empty list, and the placeholder exactly when there is no such
\* category, so that the panel is never blank.
C15_PlaceholderOrGroups ==
    [][\A preferences \in RenderPreferenceInputs :
          RenderPreferences(preferences)
              => /\ Len(preferencesList'.groups)
                        = Len(NonEmptyCategories(preferences.entries))
                 /\ preferencesList'.placeholder
                        <=> (NonEmptyCategories(preferences.entries) = <<>>)
                 /\ preferencesList'.placeholder \/ preferencesList'.groups # <<>>]_vars

\* the same for the panel MemoryManager renders after a fetch
C15_MemoryPanelNotBlank ==
    event.op = "loadPreferences.rendered"
        => preferencesList.placeholder \/ preferencesList.groups # <<>>

\* C16: deleteSession changes nothing but what the confirmed, successful
\* DELETE allows. A declined confirmation sends no request and leaves
\* currentSessionId, messages, sessions and the page as they were; a DELETE
\* that fails leaves them as they were too and starts no loadSessions.
C16_DeleteNeedsConfirmAndSuccess ==
    [][/\ \A sessionId \in SessionIds :
             ClickDelete(sessionId, FALSE)
                 => /\ net' = net
                    /\ currentSessionId' = currentSessionId
                    /\ messages' = messages /\ sessions' = sessions
                    /\ domVars' = domVars
       /\ \A r \in Awaited("deleteSession") : \A response \in Responses(r) :
             OnSessionDeleted(r, response) /\ ~Succeeded(response)
                 => /\ net' = Without(net, r)
                    /\ currentSessionId' = currentSessionId
                    /\ messages' = messages /\ sessions' = sessions
                    /\ domVars' = domVars]_vars

\* the DELETE of the open session has failed: the session is still open,
\* its messages are in the view and the list still shows it
C16_Witness ==
    /\ event.op = "deleteSession.failed"
    /\ currentSessionId = 1 /\ messages # <<>> /\ messagesContainer # <<>>
    /\ 1 \in RenderedIds
    /\ ListLoadsIn(net) = {}

\* C17: the /chat request a send issues carries session_id exactly when a
\* session is current, and the field is then the currentSessionId of the
\* moment of the send, for every id including 0.
C17_ChatCarriesCurrentSession ==
    [][\A r \in Issued :
          r.k = "sendMessage"
              => /\ ("session_id" \in DOMAIN r.body) <=> (currentSessionId # NoSession)
                 /\ "session_id" \in DOMAIN r.body
                        => r.body.session_id = currentSessionId]_vars

\* the same with the id 0 left out
C17_ExceptSessionZero ==
    [][\A r \in Issued :
          r.k = "sendMessage" /\ currentSessionId # 0
              => /\ ("session_id" \in DOMAIN r.body) <=> (currentSessionId # NoSession)
                 /\ "session_id" \in DOMAIN r.body
                        => r.body.session_id = currentSessionId]_vars

\* C18: whenever no getSessionMessages request is in flight, this.messages
\* is empty or is a message list fetched for the session whose id is
\* currentSessionId.
C18_MessagesBelongToCurrentSession ==
    Awaited("loadSession") = {}
        => \/ messages = <<>>
           \/ /\ currentSessionId \in SessionIds
              /\ messages \in MessageHistories(currentSessionId)

\* the same at the moment a reply to loadSession is applied while the session
\* it was fetched for is still the current one and no other fetch is waiting
C18_WhenReplyIsForCurrentSession ==
    [][\A r \in Awaited("loadSession") : \A response \in Responses(r) :
          OnSessionMessages(r, response) /\ Succeeded(response) /\ r.id = currentSessionId
              => messages' \in MessageHistories(currentSessionId')]_vars

\* C19: the response to a send affects only the conversation it was sent
\* from. A send made in an open session carries that session's id; when the
\* user has opened another session or started a new chat by the time the
\* response arrives, the reply is not appended to the view and
\* currentSessionId is not set from the response.
C19_ReplyStaysInItsConversation ==
    [][\A r \in Awaited("sendMessage") : \A response \in Responses(r) :
          /\ OnChatReply(r, response) /\ Succeeded(response)
          /\ "session_id" \in DOMAIN r.body
          /\ currentSessionId # r.body.session_id
          => /\ messagesContainer' = messagesContainer
             /\ currentSessionId' = currentSessionId]_vars

\* the first half alone: the reply is not appended to another conversation
C19_ReplyNotAppendedElsewhere ==
    [][\A r \in Awaited("sendMessage") : \A response \in Responses(r) :
          /\ OnChatReply(r, response) /\ Succeeded(response)
          /\ "session_id" \in DOMAIN r.body
          /\ currentSessionId # r.body.session_id
          => messagesContainer' = messagesContainer]_vars

\* the second half alone: currentSessionId is not set to the id of the
\* conversation that was left
C19_SessionNotSetToLeftOne ==
    [][\A r \in Awaited("sendMessage") : \A response \in Responses(r) :
          /\ OnChatReply(r, response) /\ Succeeded(response)
          /\ "session_id" \in DOMAIN r.body
          /\ currentSessionId # r.body.session_id
          => currentSessionId' # r.body.session_id]_vars

\* a send is in flight: its /chat request or the session-list request that
\* follows it waits for an answer
SendInFlight ==
    Awaited("sendMessage") # {} \/ Awaited("sendMessage.loadSessions") # {}

\* C20: a send that has set isLoading releases it once the network has
\* answered its requests, on the success path and on every failure path;
\* and whenever no send is in flight isLoading is false, the send button's
\* disabled state being equal to isLoading throughout.
C20_GuardIsReleased ==
    /\ isLoading ~> ~isLoading
    /\ [](~SendInFlight => ~isLoading)
    /\ [](sendBtnDisabled = isLoading)

\* a first message has been answered and the session list reloaded: the
\* guard is released and the button is enabled again
C20_Witness ==
    /\ ~isLoading /\ ~sendBtnDisabled /\ ~SendInFlight
    /\ Len(messagesContainer) = 2
    /\ messagesContainer[2].role = "assistant"
    /\ currentSessionId = 1
    /\ sessions # <<>>

\* C21: a MemoryManager has at most one running polling timer, and once
\* stopAutoUpdate has been called no timer is left to issue a preferences
\* fetch, whatever calls of init, startAutoUpdate and stopAutoUpdate came
\* before.
C21_OneTimerAndStopStops ==
    /\ Cardinality(intervals) <= 1
    /\ event.op = "stopAutoUpdate" => intervals = {}

\* the first half alone: at most one timer runs
C21_AtMostOneTimer == Cardinality(intervals) <= 1

\* the second half alone: no tick follows stopAutoUpdate while no timer has
\* been started again
C21_NoTickAfterStop ==
    [][event.op = "stopAutoUpdate" => \A id \in 1 .. MaxTimers : ~Tick(id)]_vars

\* the statement for a manager whose timer was started once only
C21_SingleStart ==
    updateInterval <= 1
        => /\ Cardinality(intervals) <= 1
           /\ event.op = "stopAutoUpdate" => intervals = {}

====
